---------------------------- MODULE Spec2Model ----------------------------
(***************************************************************************)
(* xcode-runner: locate project -> list schemes -> select scheme -> list   *)
(* devices -> select device -> query build settings -> build -> deploy.    *)
(*                                                                         *)
(* The repository holds two revisions of the program:                      *)
(*   variant "json" : src/xcode-runner.go     (simctl JSON device listing, *)
(*                    interactive scheme prompt, deploy branch chosen by a *)
(*                    hyphen in the device identifier, ios-deploy)         *)
(*   variant "text" : src/unnamed/part_000    (xctrace text device listing,*)
(*                    first scheme taken, deploy branch chosen by the      *)
(*                    artifact path, devicectl)                            *)
(* A Go string is the sequence of its bytes (0..255); Go indices are kept  *)
(* 0-based.  TLA+ strings serve as labels of the model only.               *)
(***************************************************************************)
EXTENDS Integers, Sequences, FiniteSets, TLC

\* The output of an external command is local to the function that parses it:
\* it is held for the stage that follows the call and reset by the next one.
\* projectPath and schemes are held until main last reads them (the print of
\* the detected project, the scheme selection).
VARIABLES
    variant,          \* which revision of main() runs
    pc,               \* the stage main() is about to run, or Done/Failed/Panicked
    files,            \* result of os.ReadDir(".") seen by detectXcodeProject
    projectPath,      \* main: projectPath
    listOutput,       \* result of RunShellCommand("xcodebuild", "-list")
    schemes,          \* main: schemes
    selectedScheme,   \* main: selectedScheme
    deviceOutput,     \* result of the device listing command
    devices,          \* main: devices (name -> identifier)
    selectedDevice,   \* main: selectedDevice
    deviceUDID,       \* main: deviceUDID
    settingsOutput,   \* result of xcodebuild -showBuildSettings -json
    appPath,          \* main: appPath
    bundleIdentifier, \* main: bundleIdentifier
    isSim,            \* the deploy branch main takes
    deployed,         \* deploy commands already run
    calls,            \* history: external commands and prompts issued, in order
    report            \* the message main printed on ending (empty while none)

vars == << variant, pc, files, projectPath, listOutput, schemes, selectedScheme,
           deviceOutput, devices, selectedDevice, deviceUDID, settingsOutput,
           appPath, bundleIdentifier, isSim, deployed, calls, report >>

----------------------------------------------------------------------------
(* Bounds of the model.                                                    *)

MaxEntries == 3     \* directory entries in one listing
MaxLines == 3       \* lines of xcodebuild -list output
MaxDevLines == 3    \* lines of xctrace device listing
MaxGroups == 2      \* device groups in a simctl JSON listing

----------------------------------------------------------------------------
(* Go string literals.                                                     *)

\* the ASCII characters of codes 32..95 and 97..126, in code order
AsciiFrom32 == " !\"#$%&'()*+,-./0123456789:;<=>?@ABCDEFGHIJKLMNOPQRSTUVWXYZ[\\]^_"

AsciiFrom97 == "abcdefghijklmnopqrstuvwxyz{|}~"

\* the position of the one-character string c in chars
Position(chars, c) == CHOOSE i \in 1..Len(chars) : SubSeq(chars, i, i) = c

\* the characters a literal is written with, each with its byte
AsciiCode ==
    [c \in { SubSeq(AsciiFrom32, i, i) : i \in 1..Len(AsciiFrom32) } |->
        31 + Position(AsciiFrom32, c)]
    @@ [c \in { SubSeq(AsciiFrom97, i, i) : i \in 1..Len(AsciiFrom97) } |->
        96 + Position(AsciiFrom97, c)]
    @@ ("\t" :> 9) @@ ("\n" :> 10) @@ ("\f" :> 12) @@ ("\r" :> 13)

\* the byte of one ASCII character of a literal
Byte(c) == AsciiCode[c]

\* the bytes of an ASCII literal
RECURSIVE Bytes(_)
Bytes(s) == IF s = "" THEN << >> ELSE << Byte(SubSeq(s, 1, 1)) >> \o Bytes(Tail(s))

----------------------------------------------------------------------------
(* Go's strings, unicode and bufio packages, on byte sequences.            *)

At(s, i) == s[i + 1]                             \* s[i], 0-based

Slice(s, lo, hi) == SubSeq(s, lo + 1, hi)        \* s[lo:hi], 0-based

SliceOK(s, lo, hi) == 0 <= lo /\ lo <= hi /\ hi <= Len(s)   \* no bounds panic

HasPrefix(s, p) == Len(s) >= Len(p) /\ SubSeq(s, 1, Len(p)) = p

HasSuffix(s, p) ==
    Len(s) >= Len(p) /\ SubSeq(s, Len(s) - Len(p) + 1, Len(s)) = p

TrimSuffix(s, p) == IF HasSuffix(s, p) THEN SubSeq(s, 1, Len(s) - Len(p)) ELSE s

\* sub stands in s at 0-based position i
MatchAt(s, i, sub) ==
    /\ 0 <= i
    /\ i + Len(sub) <= Len(s)
    /\ \A k \in 1..Len(sub) : s[i + k] = sub[k]

Contains(s, sub) == \E i \in 0..(Len(s) - Len(sub)) : MatchAt(s, i, sub)

\* strings.ContainsAny for a set of ASCII bytes
ContainsAny(s, chars) == \E i \in 0..(Len(s) - 1) : At(s, i) \in chars

\* strings.Index: first 0-based position of sub in s, -1 if none
Index(s, sub) ==
    LET hits == { i \in 0..(Len(s) - Len(sub)) : MatchAt(s, i, sub) }
    IN  IF hits = {} THEN -1 ELSE CHOOSE i \in hits : \A j \in hits : i <= j

\* strings.LastIndex: last 0-based position of sub in s, -1 if none
LastIndex(s, sub) ==
    LET hits == { i \in 0..(Len(s) - Len(sub)) : MatchAt(s, i, sub) }
    IN  IF hits = {} THEN -1 ELSE CHOOSE i \in hits : \A j \in hits : i >= j

\* the bytes 128 and above begin or continue the encoding of a rune
RuneSelf == 128

\* the white space below RuneSelf: \t \n \v \f \r and the space
AsciiSpace == (9..13) \cup { 32 }

\* unicode.IsSpace, as the UTF-8 encodings of the runes it holds for:
\* U+0009..U+000D, U+0020, U+0085, U+00A0, U+1680, U+2000..U+200A, U+2028,
\* U+2029, U+202F, U+205F, U+3000
WhiteSpace ==
    { << b >> : b \in AsciiSpace }
    \cup { << 194, 133 >>, << 194, 160 >>, << 225, 154, 128 >> }
    \cup { << 226, 128, b >> : b \in 128..138 }
    \cup { << 226, 128, 168 >>, << 226, 128, 169 >>, << 226, 128, 175 >>,
           << 226, 129, 159 >>, << 227, 128, 128 >> }

\* utf8.DecodeRuneInString(s[i:]) is a white-space rune
SpaceAt(s, i) == \E w \in WhiteSpace : MatchAt(s, i, w)

\* utf8.DecodeLastRuneInString(s[:i]) is a white-space rune
SpaceBefore(s, i) == \E w \in WhiteSpace : MatchAt(s, i - Len(w), w)

\* strings.TrimLeftFunc(s, unicode.IsSpace): runes are decoded from the
\* start while they are white space.  A white-space encoding starts with a
\* byte that is no continuation byte (128..191) and goes on with
\* continuation bytes only, so the runes decoded are those standing at the
\* positions before the first byte that neither starts an encoding nor lies
\* within the one that starts one or two bytes before it.
TrimLeftSpace(s) ==
    LET n == Len(s)
        Within(i) == \E j \in { i - 1, i - 2 } :
                        \E w \in WhiteSpace : MatchAt(s, j, w) /\ j + Len(w) > i
        stops == { i \in 0..n : i = n \/ (~SpaceAt(s, i) /\ ~Within(i)) }
    IN  Slice(s, CHOOSE i \in stops : \A j \in stops : i <= j, n)

\* strings.TrimRightFunc(s, unicode.IsSpace): the same from the end, the
\* last rune decoded backwards.  back holds n - i for every end i at which
\* the decoding stops.
TrimRightSpace(s) ==
    LET n == Len(s)
        Within(i) == \E j \in { i + 1, i + 2 } :
                        \E w \in WhiteSpace :
                            MatchAt(s, j - Len(w), w) /\ j - Len(w) < i
        back == { n - i : i \in { e \in 0..n : e = 0 \/ (~SpaceBefore(s, e)
                                                         /\ ~Within(e)) } }
    IN  Slice(s, 0, n - CHOOSE d \in back : \A e \in back : d <= e)

\* strings.TrimSpace: the ASCII white space is skipped from the start, then
\* from the end; at the first byte from RuneSelf on, the rest is left to
\* TrimLeftFunc and TrimRightFunc
TrimSpace(s) ==
    LET n == Len(s)
        starts == { i \in 0..n : i = n \/ At(s, i) \notin AsciiSpace }
        start == CHOOSE i \in starts : \A j \in starts : i <= j
        back == { n - i : i \in { e \in start..n :
                                    e = start \/ At(s, e - 1) \notin AsciiSpace } }
        stop == n - CHOOSE d \in back : \A e \in back : d <= e
    IN  IF start < n /\ At(s, start) >= RuneSelf
        THEN TrimRightSpace(TrimLeftSpace(Slice(s, start, n)))
        ELSE IF stop > start /\ At(s, stop - 1) >= RuneSelf
        THEN TrimRightSpace(Slice(s, start, stop))
        ELSE Slice(s, start, stop)

Dot == Byte(".")

Separator == Byte("/")

\* filepath.Ext: the suffix beginning at the final dot of the final element
Ext(path) ==
    LET dots == { i \in 0..(Len(path) - 1) :
                    /\ At(path, i) = Dot
                    /\ \A j \in i..(Len(path) - 1) : At(path, j) # Separator }
    IN  IF dots = {} THEN << >>
        ELSE Slice(path, CHOOSE i \in dots : \A j \in dots : i >= j, Len(path))

NewLine == Bytes("\n")

CarriageReturn == Bytes("\r")

\* bufio.ScanLines drops one trailing carriage return of a line
DropCR(s) == IF HasSuffix(s, CarriageReturn) THEN SubSeq(s, 1, Len(s) - 1) ELSE s

\* bufio.MaxScanTokenSize: the scanner's buffer limit (64 * 1024)
MaxScanTokenSize == 65536

\* bufio.Scanner with ScanLines: the lines of text, end-of-line markers
\* removed; a final line without newline is returned when non-empty.  When
\* no newline lies within the first MaxScanTokenSize bytes of what is left,
\* Scan returns false (ErrTooLong); GetSchemes and GetDevices never read
\* scanner.Err(), so for them the lines end there.
RECURSIVE ScanLines(_)
ScanLines(text) ==
    IF text = << >> THEN << >>
    ELSE LET i == Index(text, NewLine)
         IN  IF i = -1
             THEN IF Len(text) >= MaxScanTokenSize THEN << >>
                  ELSE << DropCR(text) >>
             ELSE IF i >= MaxScanTokenSize THEN << >>
             ELSE << DropCR(Slice(text, 0, i)) >>
                  \o ScanLines(Slice(text, i + 1, Len(text)))

RECURSIVE Join(_, _)
Join(ls, sep) ==
    IF ls = << >> THEN << >>
    ELSE IF Len(ls) = 1 THEN ls[1]
    ELSE ls[1] \o sep \o Join(Tail(ls), sep)

\* all sequences over S of length 0..n
SeqsUpTo(S, n) == UNION { [1..k -> S] : k \in 0..n }

\* Go map[string]string as a function on its key set
EmptyMap == [k \in {} |-> << >>]

Put(m, k, v) == [x \in (DOMAIN m) \cup {k} |-> IF x = k THEN v ELSE m[x]]

----------------------------------------------------------------------------
(* Results of fallible calls: err is the error's text, empty for Go's nil  *)
(* error; fault marks a run-time panic, err then being the panic's text:   *)
(* it unwinds main, which prints nothing more, and ends the process.       *)

Ok(v) == [val |-> v, err |-> << >>, fault |-> FALSE]

Err(e) == [val |-> << >>, err |-> e, fault |-> FALSE]

Fault(e) == [val |-> << >>, err |-> e, fault |-> TRUE]

\* what exec's cmd.Run / cmd.Output hand back: the captured output, and
\* whether the command exited nonzero
CmdResult(out, failed) == [out |-> out, failed |-> failed]

----------------------------------------------------------------------------
(* detectXcodeProject: workspace before project, directories only.         *)

WorkspaceExt == Bytes(".xcworkspace")

ProjectExt == Bytes(".xcodeproj")

\* the for loop: the last directory of each kind wins
RECURSIVE DetectLoop(_, _, _, _)
DetectLoop(fs, i, project, workspace) ==
    IF i > Len(fs) THEN [project |-> project, workspace |-> workspace]
    ELSE LET file == fs[i]
         IN  IF file.isDir
             THEN IF Ext(file.name) = WorkspaceExt
                  THEN DetectLoop(fs, i + 1, project, file.name)
                  ELSE IF Ext(file.name) = ProjectExt
                  THEN DetectLoop(fs, i + 1, file.name, workspace)
                  ELSE DetectLoop(fs, i + 1, project, workspace)
             ELSE DetectLoop(fs, i + 1, project, workspace)

NotFound == Bytes("no .xcodeproj or .xcworkspace found in the current directory")

\* the variant a swapped precedence would give
PickProjectFirst(found) ==
    IF found.project # << >> THEN Ok(found.project)
    ELSE IF found.workspace # << >> THEN Ok(found.workspace)
    ELSE Err(NotFound)

PickProject(found) ==
    IF found.workspace # << >> THEN Ok(found.workspace)
    ELSE IF found.project # << >> THEN Ok(found.project)
    ELSE Err(NotFound)

\* dir = [entries |-> sequence of [name, isDir], failed |-> ReadDir error]
detectXcodeProject(dir) ==
    IF dir.failed THEN Err(Bytes("open .: permission denied"))
    ELSE PickProject(DetectLoop(dir.entries, 1, << >>, << >>))

----------------------------------------------------------------------------
(* GetSchemes: lines after the "Schemes:" header.                          *)

SchemesMarker == Bytes("Schemes:")

\* the scanner loop: append when collecting, then look for the header
RECURSIVE SchemeLoopRec(_, _, _, _)
SchemeLoopRec(lines, i, inSchemes, acc) ==
    IF i > Len(lines) THEN acc
    ELSE LET line == TrimSpace(lines[i])
         IN  SchemeLoopRec(lines, i + 1,
                 inSchemes \/ Contains(line, SchemesMarker),
                 IF inSchemes /\ line # << >> THEN Append(acc, line) ELSE acc)

SchemeLoop(lines) == SchemeLoopRec(lines, 1, FALSE, << >>)

RunShellCommand(res) ==
    IF res.failed
    THEN Err(Bytes("error running command: exit status 1\n") \o res.out)
    ELSE Ok(res.out)

GetSchemes(res) ==
    LET r == RunShellCommand(res)
    IN  IF r.err # << >> THEN r
        ELSE LET found == SchemeLoop(ScanLines(r.val))
             IN  IF Len(found) = 0 THEN Err(Bytes("no schemes found"))
                 ELSE Ok(found)

----------------------------------------------------------------------------
(* GetDevices of src/xcode-runner.go: simctl JSON listing.                 *)
(* A decoded listing is a sequence of groups in the listing's order, each  *)
(* a sequence of Device records [name, udid, avail]; DeviceList.Devices is *)
(* a Go map, so the groups are ranged over in an unspecified order, given  *)
(* here as a permutation of the group indices.                             *)

RangeOrders(n) ==
    { p \in [1..n -> 1..n] : \A i, j \in 1..n : i # j => p[i] # p[j] }

\* the inner loop: available records of one group, in order
RECURSIVE GroupLoop(_, _, _)
GroupLoop(group, i, acc) ==
    IF i > Len(group) THEN acc
    ELSE GroupLoop(group, i + 1,
             IF group[i].avail THEN Put(acc, group[i].name, group[i].udid)
             ELSE acc)

\* the outer loop, visiting the groups in the order the map range yields
RECURSIVE GroupsLoop(_, _, _, _)
GroupsLoop(groups, order, k, acc) ==
    IF k > Len(groups) THEN acc
    ELSE GroupsLoop(groups, order, k + 1, GroupLoop(groups[order[k]], 1, acc))

\* res = [failed, badJSON, groups]
GetDevicesJSON(res, order) ==
    IF res.failed THEN Err(Bytes("exit status 1"))
    ELSE IF res.badJSON THEN Err(Bytes("unexpected end of JSON input"))
    ELSE LET found == GroupsLoop(res.groups, order, 1, EmptyMap)
         IN  IF DOMAIN found = {}
             THEN Err(Bytes("no available simulators found"))
             ELSE Ok(found)

----------------------------------------------------------------------------
(* GetDevices of src/unnamed/part_000: xctrace text listing.               *)

SectionPrefix == Bytes("== ")

DevicesSection == Bytes("== Devices ==")

OfflineSection == Bytes("== Devices Offline ==")

SimulatorsSection == Bytes("== Simulators ==")

OpenParen == Bytes("(")

CloseParen == Bytes(")")

Hyphen == Bytes("-")

Space == Bytes(" ")

\* the bytes of an ASCII literal, as a set
ByteSet(chars) == { Bytes(chars)[i] : i \in 1..Len(chars) }

HexUpper == ByteSet("0123456789ABCDEF")

Digits == ByteSet("0123456789")

AllIn(s, chars) == \A i \in 0..(Len(s) - 1) : At(s, i) \in chars

\* [A-F0-9]{8}-[A-F0-9]{4}-[A-F0-9]{4}-[A-F0-9]{4}-[A-F0-9]{12}
IsUUID(id) ==
    /\ Len(id) = 36
    /\ \A i \in { 8, 13, 18, 23 } : At(id, i) = Hyphen[1]
    /\ AllIn(Slice(id, 0, 8), HexUpper) /\ AllIn(Slice(id, 9, 13), HexUpper)
    /\ AllIn(Slice(id, 14, 18), HexUpper) /\ AllIn(Slice(id, 19, 23), HexUpper)
    /\ AllIn(Slice(id, 24, 36), HexUpper)

\* [0-9]{8}-[0-9]{16}
IsECID(id) ==
    /\ Len(id) = 25
    /\ At(id, 8) = Hyphen[1]
    /\ AllIn(Slice(id, 0, 8), Digits) /\ AllIn(Slice(id, 9, 25), Digits)

\* re.MatchString(line) for ^(.+) \((UUID|ECID)\)$ : the identifier
\* alternatives have fixed lengths, so the split of the line is forced
ReMatch(line) ==
    \E n \in {36, 25} :
        /\ Len(line) >= n + 4
        /\ At(line, Len(line) - 1) = CloseParen[1]
        /\ At(line, Len(line) - n - 2) = OpenParen[1]
        /\ At(line, Len(line) - n - 3) = Space[1]
        /\ ~Contains(Slice(line, 0, Len(line) - n - 3), NewLine)
        /\ LET id == Slice(line, Len(line) - n - 1, Len(line) - 1)
           IN  IF n = 36 THEN IsUUID(id) ELSE IsECID(id)

\* a scan without the section test: every line is a candidate
InDeviceSectionAlways(currentSection) == TRUE

\* line 98: only the Devices and the Simulators sections are processed
InDeviceSection(currentSection) ==
    currentSection = DevicesSection \/ currentSection = SimulatorsSection

\* line 118: the regular expression, or the permissive fallback
Accepts(line, udid) ==
    \/ ReMatch(line)
    \/ /\ Len(udid) > 0
       /\ Contains(udid, Hyphen) \/ ContainsAny(udid, HexUpper)

\* One iteration of the scanner loop (lines 84-121) on state
\* st = [section, devices, fault].
ScanLine(st, line) ==
    IF HasPrefix(line, SectionPrefix) THEN [st EXCEPT !.section = line]
    ELSE IF line = << >> \/ st.section = OfflineSection THEN st
    ELSE IF ~InDeviceSection(st.section) THEN st
    ELSE LET lastParenIndex == LastIndex(line, OpenParen)
         IN  IF lastParenIndex = -1 THEN st
             ELSE IF ~SliceOK(line, 0, lastParenIndex - 1)
             THEN [st EXCEPT !.fault = TRUE]  \* line[:lastParenIndex-1] panics
             ELSE LET udid == TrimSuffix(Slice(line, lastParenIndex + 1,
                                                 Len(line)), CloseParen)
                      name0 == Slice(line, 0, lastParenIndex - 1)
                      versionParenIndex == LastIndex(name0, OpenParen)
                      deviceName == IF versionParenIndex # -1
                                    THEN TrimSpace(Slice(name0, 0, versionParenIndex))
                                    ELSE name0
                  IN  IF Accepts(line, udid)
                      THEN [st EXCEPT !.devices = Put(st.devices, deviceName, udid)]
                      ELSE st

\* the scanner loop over the first n lines; a panic ends it
RECURSIVE ScanPrefix(_, _)
ScanPrefix(lines, n) ==
    IF n = 0 THEN [section |-> << >>, devices |-> EmptyMap, fault |-> FALSE]
    ELSE LET st == ScanPrefix(lines, n - 1)
         IN  IF st.fault THEN st ELSE ScanLine(st, lines[n])

\* res = [out, failed]
GetDevicesText(res) ==
    IF res.failed THEN Err(Bytes("exit status 1"))
    ELSE LET lines == ScanLines(res.out)
             st == ScanPrefix(lines, Len(lines))
         IN  IF st.fault THEN Fault(Bytes("runtime error: slice bounds out of range [:-1]"))
             ELSE IF DOMAIN st.devices = {}
             THEN Err(Bytes("no available simulators found"))
             ELSE Ok(st.devices)

----------------------------------------------------------------------------
(* GetBuildSettings: first record's "buildSettings" mapping.               *)
(* A decoded JSON value is [t, s, o]: t its Go type under `any`            *)
(* ("string", "float64", "map", "nil"), s a string's bytes, o a map's      *)
(* entries.  A Go map[string]any is a function on its key set; indexing a  *)
(* missing key yields the nil interface.                                   *)

JStr(text) == [t |-> "string", s |-> text, o |-> << >>]

JNum == [t |-> "float64", s |-> << >>, o |-> << >>]

JNil == [t |-> "nil", s |-> << >>, o |-> << >>]

JMap(entries) == [t |-> "map", s |-> << >>, o |-> entries]

MapIndex(m, k) == IF k \in DOMAIN m THEN m[k] ELSE JNil

\* the name the run-time gives a dynamic type
TypeName(t) == IF t = "map" THEN Bytes("map[string]interface {}") ELSE Bytes(t)

\* the panic of the type assertion v.(want) on a value of another type
ConversionError(v, want) ==
    Bytes("interface conversion: interface {} is ") \o TypeName(v.t)
        \o Bytes(", not ") \o TypeName(want)

BuildSettingsKey == Bytes("buildSettings")

BuiltProductsDirKey == Bytes("BUILT_PRODUCTS_DIR")

ContentsFolderPathKey == Bytes("CONTENTS_FOLDER_PATH")

BundleIdentifierKey == Bytes("PRODUCT_BUNDLE_IDENTIFIER")

\* res = [failed, badJSON, records]
GetBuildSettings(res) ==
    IF res.failed THEN Err(Bytes("exit status 65"))
    ELSE IF res.badJSON THEN Err(Bytes("invalid character"))
    ELSE IF Len(res.records) > 0
    THEN LET top == MapIndex(res.records[1], BuildSettingsKey)
         IN  IF top.t # "map"
             THEN Fault(ConversionError(top, "map"))
             ELSE LET settings == top.o
                      builtProductsDir == MapIndex(settings, BuiltProductsDirKey)
                      contentsFolderPath == MapIndex(settings, ContentsFolderPathKey)
                      bundleId == MapIndex(settings, BundleIdentifierKey)
                  IN  IF builtProductsDir.t # "string"
                         \/ contentsFolderPath.t # "string"
                         \/ bundleId.t # "string"
                      THEN Fault(ConversionError(
                               IF builtProductsDir.t # "string" THEN builtProductsDir
                               ELSE IF contentsFolderPath.t # "string"
                               THEN contentsFolderPath
                               ELSE bundleId, "string"))
                      ELSE Ok([appPath |-> builtProductsDir.s \o << Separator >>
                                           \o contentsFolderPath.s,
                               bundleIdentifier |-> bundleId.s])
    ELSE Err(Bytes("Unable to find the required build settings"))

----------------------------------------------------------------------------
(* What the environment can hand to the program.                           *)

Range(f) == { f[x] : x \in DOMAIN f }

\* directory entries, in the name order os.ReadDir returns them
DirPool ==
    << [name |-> Bytes("A.xcodeproj"), isDir |-> TRUE],
       [name |-> Bytes("A.xcworkspace"), isDir |-> TRUE],
       [name |-> Bytes("B.xcodeproj"), isDir |-> TRUE],
       [name |-> Bytes("C.xcworkspace"), isDir |-> FALSE],
       [name |-> Bytes("src"), isDir |-> TRUE] >>

DirResults ==
    { [entries |-> SelectSeq(DirPool, LAMBDA e : e \in S), failed |-> FALSE] :
        S \in { T \in SUBSET Range(DirPool) : Cardinality(T) <= MaxEntries } }
    \cup { [entries |-> << >>, failed |-> TRUE] }

NoDir == [entries |-> << >>, failed |-> FALSE]

\* a line of white space only: a space, a vertical tab, U+00A0 and U+3000
BlankLine == << 32, 11, 194, 160, 227, 128, 128 >>

SchemeLinePool ==
    { << >>, BlankLine, Bytes("    Schemes:"), Bytes("  Debug"), Bytes("Release\r") }

\* s repeated 2^k times
RECURSIVE Doubled(_, _)
Doubled(s, k) == IF k = 0 THEN s ELSE Doubled(s \o s, k - 1)

\* a line of MaxScanTokenSize bytes
LongLine == Doubled(Bytes("x"), 16)

\* listings with a line the scanner cannot hold
LongListTexts ==
    { Bytes("    Schemes:\n  Debug\n") \o LongLine \o Bytes("\nRelease"),
      LongLine \o Bytes("\n    Schemes:\n  Debug") }

ListResults ==
    { CmdResult(Join(ls, NewLine), FALSE) :
        ls \in SeqsUpTo(SchemeLinePool, MaxLines) }
    \cup { CmdResult(t, FALSE) : t \in LongListTexts }
    \cup { CmdResult(Bytes("xcodebuild: error: no project"), TRUE) }

NoOutput == CmdResult(<< >>, FALSE)

\* what GetSchemes returns on each listing
SchemesOf == [res \in ListResults |-> GetSchemes(res)]

SimUUID == Bytes("0000AAAA-1111-2222-3333-444455556666")

DeviceLinePool ==
    { DevicesSection, OfflineSection, SimulatorsSection, << >>,
      Bytes("iPhone (17.0) (") \o SimUUID \o Bytes(")"),
      Bytes("iPhone (F-2)"), Bytes("iPhone (zz)"), Bytes("Mac"), Bytes("(A-1)") }

\* a listing with a line the scanner cannot hold
LongDeviceText ==
    Bytes("== Devices ==\niPhone (F-2)\n") \o LongLine \o Bytes("\niPhone (F-3)")

\* listings whose Offline section follows a connected device, and names the
\* same device or another one
OfflineDeviceTexts ==
    { Bytes("== Devices ==\niPhone (F-2)\n== Devices Offline ==\n") \o line :
        line \in { Bytes("iPhone (F-3)"), Bytes("iPad (F-3)") } }

TextResults ==
    { CmdResult(Join(ls, NewLine), FALSE) :
        ls \in SeqsUpTo(DeviceLinePool, MaxDevLines) }
    \cup { CmdResult(t, FALSE) : t \in OfflineDeviceTexts }
    \cup { CmdResult(LongDeviceText, FALSE), CmdResult(<< >>, TRUE) }

\* what GetDevices returns on each text listing
DevicesOf == [res \in TextResults |-> GetDevicesText(res)]

Dev(name, udid, avail) ==
    [name |-> Bytes(name), udid |-> Bytes(udid), avail |-> avail]

GroupPool ==
    { << >>,
      << Dev("iPhone 15", "ABCD-1234", TRUE) >>,
      << Dev("iPhone 15", "EF005678", TRUE) >>,
      << Dev("iPad", "0000-9999", FALSE) >>,
      << Dev("iPhone 15", "EF005678", TRUE), Dev("iPhone 15", "ABCD-1234", TRUE) >>,
      << Dev("iPad", "AAAA-0001", TRUE) >> }

JsonResults ==
    { [failed |-> FALSE, badJSON |-> FALSE, groups |-> gs] :
        gs \in SeqsUpTo(GroupPool, MaxGroups) }
    \cup { [failed |-> TRUE, badJSON |-> FALSE, groups |-> << >>],
           [failed |-> FALSE, badJSON |-> TRUE, groups |-> << >>] }

NoDevices == [failed |-> FALSE, badJSON |-> FALSE, groups |-> << >>]

SettingKeys == { BuiltProductsDirKey, ContentsFolderPathKey, BundleIdentifierKey }

SettingValues(k) ==
    IF k = BuiltProductsDirKey
    THEN { JNum, JStr(Bytes("/b/Debug-iphonesimulator")),
           JStr(Bytes("/b/Debug-iphoneos")) }
    ELSE IF k = ContentsFolderPathKey THEN { JNum, JStr(Bytes("A.app")) }
    ELSE { JStr(<< >>), JStr(Bytes("c.A")) }

SettingMaps ==
    UNION { { m \in [K -> UNION { SettingValues(k) : k \in SettingKeys }] :
                \A k \in K : m[k] \in SettingValues(k) } :
            K \in SUBSET SettingKeys }

RecordPool ==
    { [k \in {} |-> JNil], [k \in { BuildSettingsKey } |-> JStr(Bytes("x"))] }
    \cup { [k \in { BuildSettingsKey } |-> JMap(m)] : m \in SettingMaps }

SettingsResults ==
    { [failed |-> FALSE, badJSON |-> FALSE, records |-> << r >>] : r \in RecordPool }
    \cup { [failed |-> FALSE, badJSON |-> FALSE, records |-> << >>],
           [failed |-> TRUE, badJSON |-> FALSE, records |-> << >>],
           [failed |-> FALSE, badJSON |-> TRUE, records |-> << >>] }

NoSettings == [failed |-> FALSE, badJSON |-> FALSE, records |-> << >>]

----------------------------------------------------------------------------
(* main.                                                                   *)

Call(stage, cmd, id, ok) == [stage |-> stage, cmd |-> cmd, id |-> id, ok |-> ok]

\* `if err != nil { fmt.Println(...); return }` after every stage
NextStage(failed, next) == IF failed THEN "Failed" ELSE next

\* promptui's Select: the chosen item, or an error when the operator
\* aborts (choice 0)
PromptUser(items, choice) ==
    IF choice = 0 THEN Err(Bytes("^C")) ELSE Ok(items[choice])

\* fmt.Println: the operands separated by spaces, and a newline
Println(operands) == Join(operands, Space) \o NewLine

\* U+274C, the cross mark that opens main's error messages
CrossMark == << 226, 157, 140 >>

\* U+2705, the check mark of main's last message
CheckMark == << 226, 156, 133 >>

\* fmt.Println(<cross mark> label, err)
PrintError(label, err) == Println(<< CrossMark \o Space \o Bytes(label), err >>)

\* fmt.Println(<cross mark> message)
PrintFailure(message) == Println(<< CrossMark \o Space \o Bytes(message) >>)

\* fmt.Println("\n<check mark> Done!")
DoneMessage == Println(<< Bytes("\n") \o CheckMark \o Bytes(" Done!") >>)

\* the sequences that list every element of S once
Enumerations(S) ==
    { q \in [1..Cardinality(S) -> S] : \A i, j \in DOMAIN q : i # j => q[i] # q[j] }

\* a range loop that collects the values instead of the keys
DeviceValues(devs) == { devs[k] : k \in DOMAIN devs }

\* `for name := range devices`: the registry's keys
DeviceNames(devs) == DOMAIN devs

SimulatorMarker == Bytes("simulator")

\* the target kind in part_000 (line 199): the artifact path names a
\* simulator build
IsSimByPath(path) == Contains(path, SimulatorMarker)

\* the target kind in xcode-runner.go (line 175): the identifier has a hyphen
IsSimByHyphen(udid) == Contains(udid, Hyphen)

IsSimTarget(v, path, udid) ==
    IF v = "text" THEN IsSimByPath(path) ELSE IsSimByHyphen(udid)

\* the commands of part_000's deploy branch, in program order
DeployPlanText(sim) ==
    IF sim THEN << "simctl bootstatus", "simctl install", "simctl launch" >>
    ELSE << "devicectl device install app", "devicectl device process launch" >>

\* the commands of xcode-runner.go's deploy branch, in program order
DeployPlanJSON(sim) ==
    IF sim THEN << "simctl bootstatus", "simctl install", "simctl launch" >>
    ELSE << "ios-deploy --debug" >>

DeployPlan(v, sim) == IF v = "text" THEN DeployPlanText(sim) ELSE DeployPlanJSON(sim)

Init ==
    /\ variant \in { "json", "text" }
    /\ pc = "LocateProject"
    /\ files = NoDir
    /\ projectPath = << >>
    /\ listOutput = NoOutput
    /\ schemes = << >>
    /\ selectedScheme = << >>
    /\ deviceOutput = IF variant = "json" THEN NoDevices ELSE NoOutput
    /\ devices = EmptyMap
    /\ selectedDevice = << >>
    /\ deviceUDID = << >>
    /\ settingsOutput = NoSettings
    /\ appPath = << >>
    /\ bundleIdentifier = << >>
    /\ isSim = FALSE
    /\ deployed = 0
    /\ calls = << >>
    /\ report = << >>

LocateProject ==
    /\ pc = "LocateProject"
    /\ \E dir \in DirResults :
         LET r == detectXcodeProject(dir)
         IN  /\ files' = dir
             /\ calls' = Append(calls, Call("LocateProject", "ReadDir", << >>, r.err = << >>))
             /\ pc' = NextStage(r.err # << >>, "ListSchemes")
             /\ projectPath' = r.val
             /\ report' = IF r.err # << >> THEN PrintError("Error:", r.err) ELSE report
    /\ UNCHANGED << variant, listOutput, schemes, selectedScheme, deviceOutput,
                    devices, selectedDevice, deviceUDID, settingsOutput, appPath,
                    bundleIdentifier, isSim, deployed >>

ListSchemes ==
    /\ pc = "ListSchemes"
    /\ \E res \in ListResults :
         LET r == SchemesOf[res]
         IN  /\ listOutput' = res
             /\ calls' = Append(calls, Call("ListSchemes", "xcodebuild -list", << >>,
                                            r.err = << >>))
             /\ pc' = NextStage(r.err # << >>, "SelectScheme")
             /\ schemes' = IF r.err # << >> THEN << >> ELSE r.val
             /\ report' = IF r.err # << >>
                          THEN PrintError("Error fetching schemes:", r.err)
                          ELSE report
    /\ files' = NoDir
    /\ projectPath' = << >>
    /\ UNCHANGED << variant, selectedScheme, deviceOutput, devices,
                    selectedDevice, deviceUDID, settingsOutput, appPath,
                    bundleIdentifier, isSim, deployed >>

\* xcode-runner.go: the operator picks the scheme
SelectSchemePrompt ==
    /\ pc = "SelectScheme"
    /\ variant = "json"
    /\ \E choice \in 0..Len(schemes) :
         LET r == PromptUser(schemes, choice)
         IN  /\ calls' = Append(calls, Call("SelectScheme", "prompt", << >>, r.err = << >>))
             /\ pc' = NextStage(r.err # << >>, "ListDevices")
             /\ selectedScheme' = r.val
             /\ report' = IF r.err # << >>
                          THEN PrintError("Error selecting scheme:", r.err)
                          ELSE report
    /\ listOutput' = NoOutput
    /\ schemes' = << >>
    /\ UNCHANGED << variant, files, projectPath, deviceOutput, devices,
                    selectedDevice, deviceUDID, settingsOutput, appPath,
                    bundleIdentifier, isSim, deployed >>

\* part_000: schemes[0], without a prompt
SelectSchemeFirst ==
    /\ pc = "SelectScheme"
    /\ variant = "text"
    /\ selectedScheme' = schemes[1]
    /\ pc' = "ListDevices"
    /\ listOutput' = NoOutput
    /\ schemes' = << >>
    /\ UNCHANGED << variant, files, projectPath, deviceOutput, devices,
                    selectedDevice, deviceUDID, settingsOutput, appPath,
                    bundleIdentifier, isSim, deployed, calls, report >>

\* xcode-runner.go: simctl's JSON listing
ListDevicesJSON ==
    /\ pc = "ListDevices"
    /\ variant = "json"
    /\ \E res \in JsonResults :
       \E order \in RangeOrders(Len(res.groups)) :
         LET r == GetDevicesJSON(res, order)
         IN  /\ deviceOutput' = res
             /\ calls' = Append(calls, Call("ListDevices", "simctl list devices --json",
                                            << >>, r.err = << >>))
             /\ pc' = NextStage(r.err # << >>, "SelectDevice")
             /\ devices' = IF r.err # << >> THEN EmptyMap ELSE r.val
             /\ report' = IF r.err # << >>
                          THEN PrintError("Error fetching devices:", r.err)
                          ELSE report
    /\ UNCHANGED << variant, files, projectPath, listOutput, schemes, selectedScheme,
                    selectedDevice, deviceUDID, settingsOutput, appPath,
                    bundleIdentifier, isSim, deployed >>

\* part_000: xctrace's text listing; a panic in the parser ends the process
ListDevicesText ==
    /\ pc = "ListDevices"
    /\ variant = "text"
    /\ \E res \in TextResults :
         LET r == DevicesOf[res]
         IN  /\ deviceOutput' = res
             /\ calls' = Append(calls, Call("ListDevices", "xctrace list devices",
                                            << >>, r.err = << >>))
             /\ pc' = IF r.fault THEN "Panicked"
                      ELSE NextStage(r.err # << >>, "SelectDevice")
             /\ devices' = IF r.err # << >> THEN EmptyMap ELSE r.val
             /\ report' = IF r.fault THEN report
                          ELSE IF r.err # << >>
                          THEN PrintError("Error fetching devices:", r.err)
                          ELSE report
    /\ UNCHANGED << variant, files, projectPath, listOutput, schemes, selectedScheme,
                    selectedDevice, deviceUDID, settingsOutput, appPath,
                    bundleIdentifier, isSim, deployed >>

SelectDevice ==
    /\ pc = "SelectDevice"
    /\ \E deviceNames \in Enumerations(DeviceNames(devices)) :
       \E choice \in 0..Len(deviceNames) :
         LET r == PromptUser(deviceNames, choice)
             found == r.err = << >> /\ r.val \in DOMAIN devices
         IN  /\ calls' = Append(calls, Call("SelectDevice", "prompt", << >>, found))
             /\ pc' = NextStage(~found, "QueryBuildSettings")
             /\ selectedDevice' = r.val
             /\ deviceUDID' = IF found THEN devices[r.val] ELSE << >>
             /\ report' = IF r.err # << >>
                          THEN PrintError("Error selecting device:", r.err)
                          ELSE IF ~found
                          THEN PrintFailure("Error: Could not find UDID for selected device.")
                          ELSE report
    /\ deviceOutput' = IF variant = "json" THEN NoDevices ELSE NoOutput
    /\ UNCHANGED << variant, files, projectPath, listOutput, schemes, selectedScheme,
                    devices, settingsOutput, appPath, bundleIdentifier, isSim,
                    deployed >>

QueryBuildSettings ==
    /\ pc = "QueryBuildSettings"
    /\ \E res \in SettingsResults :
         LET r == GetBuildSettings(res)
             empty == /\ r.err = << >>
                      /\ r.val.appPath = << >> \/ r.val.bundleIdentifier = << >>
         IN  /\ settingsOutput' = res
             /\ calls' = Append(calls,
                    Call("QueryBuildSettings", "xcodebuild -showBuildSettings -json",
                         deviceUDID, r.err = << >> /\ ~empty))
             /\ pc' = IF r.fault THEN "Panicked"
                      ELSE NextStage(r.err # << >> \/ empty, "Build")
             /\ appPath' = IF r.err # << >> THEN << >> ELSE r.val.appPath
             /\ bundleIdentifier' = IF r.err # << >> THEN << >>
                                    ELSE r.val.bundleIdentifier
             /\ report' =
                  IF r.fault THEN report
                  ELSE IF r.err # << >>
                  THEN PrintError("Error getting build settings:", r.err)
                  ELSE IF empty
                  THEN PrintFailure("Error: Could not find app path or bundle identifier.")
                  ELSE report
    /\ UNCHANGED << variant, files, projectPath, listOutput, schemes, selectedScheme,
                    deviceOutput, devices, selectedDevice, deviceUDID, isSim,
                    deployed >>

Build ==
    /\ pc = "Build"
    /\ \E failed \in BOOLEAN :
         /\ calls' = Append(calls,
                Call("Build",
                     IF variant = "json" THEN "xcodebuild clean build"
                     ELSE "xcodebuild -configuration Debug build",
                     deviceUDID, ~failed))
         /\ pc' = NextStage(failed, "Deploy")
         /\ isSim' = IF variant = "text" \/ ~failed
                     THEN IsSimTarget(variant, appPath, deviceUDID) ELSE isSim
         /\ report' = IF failed THEN PrintFailure("Build failed!") ELSE report
    /\ settingsOutput' = NoSettings
    /\ UNCHANGED << variant, files, projectPath, listOutput, schemes, selectedScheme,
                    deviceOutput, devices, selectedDevice, deviceUDID, appPath,
                    bundleIdentifier, deployed >>

\* one exec.Command(...).Run() of the deploy branch; its error is dropped
Deploy ==
    /\ pc = "Deploy"
    /\ deployed < Len(DeployPlan(variant, isSim))
    /\ \E failed \in BOOLEAN :
         calls' = Append(calls, Call("Deploy", DeployPlan(variant, isSim)[deployed + 1],
                                     deviceUDID, ~failed))
    /\ deployed' = deployed + 1
    /\ UNCHANGED << variant, pc, files, projectPath, listOutput, schemes,
                    selectedScheme, deviceOutput, devices, selectedDevice, deviceUDID,
                    settingsOutput, appPath, bundleIdentifier, isSim, report >>

PrintDone ==
    /\ pc = "Deploy"
    /\ deployed >= Len(DeployPlan(variant, isSim))
    /\ pc' = "Done"
    /\ report' = DoneMessage
    /\ UNCHANGED << variant, files, projectPath, listOutput, schemes, selectedScheme,
                    deviceOutput, devices, selectedDevice, deviceUDID, settingsOutput,
                    appPath, bundleIdentifier, isSim, deployed, calls >>

Next ==
    \/ LocateProject
    \/ ListSchemes
    \/ SelectSchemePrompt
    \/ SelectSchemeFirst
    \/ ListDevicesJSON
    \/ ListDevicesText
    \/ SelectDevice
    \/ QueryBuildSettings
    \/ Build
    \/ Deploy
    \/ PrintDone

Spec == Init /\ [][Next]_vars

----------------------------------------------------------------------------
(* Properties.                                                             *)

\* stage has just run: main stands before `next`, or the stage ended the run
JustRan(stage, next) ==
    \/ pc = next
    \/ /\ pc \in { "Failed", "Panicked" }
       /\ Len(calls) > 0
       /\ calls[Len(calls)].stage = stage

DeployCalls == SelectSeq(calls, LAMBDA c : c.stage = "Deploy")

BuildSucceeded == \E i \in 1..Len(calls) : calls[i].stage = "Build" /\ calls[i].ok

IsPrefix(p, q) == Len(p) <= Len(q) /\ SubSeq(q, 1, Len(p)) = p

\* what an invocation of the deploy phase does
CmdKind(cmd) ==
    IF cmd = "simctl bootstatus" THEN "boot-status"
    ELSE IF cmd \in { "simctl install", "devicectl device install app" } THEN "install"
    ELSE IF cmd \in { "simctl launch", "devicectl device process launch" } THEN "launch"
    ELSE "install-and-debug"

DeployKinds == [i \in 1..Len(DeployCalls) |-> CmdKind(DeployCalls[i].cmd)]

\* C1: a stage before the deploy phase that fails is the last thing the run
\* invokes: the workflow ends in Failed with the error reported, Done is never
\* printed, and no stage is invoked twice.
C1_StageFailureEndsInFailed ==
    /\ \A i \in 1..Len(calls) :
         (calls[i].stage # "Deploy" /\ ~calls[i].ok)
             => /\ i = Len(calls)
                /\ pc = "Failed"
                /\ report \notin { << >>, DoneMessage }
    /\ \A i, j \in 1..Len(calls) :
         (i < j /\ calls[i].stage # "Deploy") => calls[i].stage # calls[j].stage
    /\ pc = "Failed" => (Len(calls) > 0 /\ ~calls[Len(calls)].ok)

\* the deploy phase runs `expected`, each command once and in order, whatever
\* the exit statuses, and then prints Done
DeployRuns(expected) ==
    /\ pc \in { "Deploy", "Done" }
    /\ IsPrefix(DeployKinds, expected)
    /\ pc = "Done" => (DeployKinds = expected /\ report = DoneMessage)
    /\ pc = "Deploy" => ENABLED (Deploy \/ PrintDone)

\* C2: after a successful build a simulator target gets boot-status, install,
\* launch and a physical device gets install, launch, once each and in order
\* whatever the exit statuses, and the run reaches Done.
C2_DeployBestEffort ==
    BuildSucceeded =>
        DeployRuns(IF isSim THEN << "boot-status", "install", "launch" >>
                   ELSE << "install", "launch" >>)

\* C3: the simulator branch is taken exactly when the artifact path contains
\* the simulator marker, whatever the device identifier looks like.
C3_BranchByArtifactPath ==
    (pc \in { "Deploy", "Done" }) => (isSim <=> Contains(appPath, Bytes("simulator")))

\* the lines of a text: what lies between its newlines, a carriage return
\* before a newline dropped, however long a line is
RECURSIVE SplitLines(_)
SplitLines(text) ==
    IF text = << >> THEN << >>
    ELSE LET i == Index(text, NewLine)
         IN  IF i = -1 THEN << DropCR(text) >>
             ELSE << DropCR(Slice(text, 0, i)) >>
                  \o SplitLines(Slice(text, i + 1, Len(text)))

\* the lines after the first header line, blank ones dropped, white space
\* around each removed
LinesAfterHeader(lines) ==
    LET heads == { i \in 1..Len(lines) : Contains(lines[i], Bytes("Schemes:")) }
    IN  IF heads = {} THEN << >>
        ELSE LET h == CHOOSE i \in heads : \A j \in heads : i <= j
                 rest == SelectSeq(SubSeq(lines, h + 1, Len(lines)),
                                   LAMBDA l : TrimSpace(l) # << >>)
             IN  [i \in 1..Len(rest) |-> TrimSpace(rest[i])]

\* C4: GetSchemes returns the non-blank lines that follow the "Schemes:"
\* header of the output text, all of them and in order; without header, or
\* without such lines, it fails with "no schemes found".
C4_SchemesAfterHeader ==
    (JustRan("ListSchemes", "SelectScheme") /\ ~listOutput.failed) =>
        LET expected == LinesAfterHeader(SplitLines(listOutput.out))
        IN  IF expected = << >>
            THEN /\ pc = "Failed"
                 /\ report = PrintError("Error fetching schemes:",
                                     Bytes("no schemes found"))
            ELSE pc = "SelectScheme" /\ schemes = expected

\* the decoded build settings lack something GetBuildSettings needs
Malformed(res) ==
    \/ Len(res.records) = 0
    \/ /\ Len(res.records) > 0
       /\ LET top == MapIndex(res.records[1], Bytes("buildSettings"))
          IN  \/ top.t # "map"
              \/ \E k \in SettingKeys : MapIndex(top.o, k).t # "string"

\* C5: on an empty record sequence, or a first record whose settings mapping
\* or one of whose three fields is absent or of another type, GetBuildSettings
\* returns an error that main reports, and the run ends in Failed.
C5_MalformedSettingsFail ==
    ( /\ JustRan("QueryBuildSettings", "Build")
      /\ ~settingsOutput.failed /\ ~settingsOutput.badJSON
      /\ Malformed(settingsOutput) )
    => /\ pc = "Failed"
       /\ HasPrefix(report, CrossMark \o Bytes(" Error getting build settings: "))

\* the records of all groups, in the listing's order
RECURSIVE Flatten(_)
Flatten(groups) ==
    IF groups = << >> THEN << >> ELSE Head(groups) \o Flatten(Tail(groups))

\* the identifier of the last available record named n
LastSeen(recs, n) ==
    LET hits == { i \in 1..Len(recs) : recs[i].avail /\ recs[i].name = n }
    IN  recs[CHOOSE i \in hits : \A j \in hits : i >= j].udid

\* C6: the registry built from a JSON listing maps every name to the
\* identifier of the last available record of that name in the listing's order.
C6_LastSeenWins ==
    (variant = "json" /\ pc = "SelectDevice") =>
        \A n \in DOMAIN devices :
            devices[n] = LastSeen(Flatten(deviceOutput.groups), n)

\* C7: a line scanned while the current section is not exactly the Devices or
\* the Simulators section (an Offline section among them) leaves the registry
\* as it was, and the registry main gets is the one the scan ends with.
C7_OfflineNeverAdds ==
    (variant = "text" /\ JustRan("ListDevices", "SelectDevice")
       /\ ~deviceOutput.failed) =>
        LET lines == ScanLines(deviceOutput.out)
        IN  /\ \A i \in 1..Len(lines) :
                 LET before == ScanPrefix(lines, i - 1)
                 IN  before.section \notin { Bytes("== Devices =="),
                                              Bytes("== Simulators ==") }
                         => ScanPrefix(lines, i).devices = before.devices
            /\ pc = "SelectDevice" => devices = ScanPrefix(lines, Len(lines)).devices

\* C7 witness: with a device already in the registry, a line that a device
\* section accepts and that names the same device was scanned under the
\* Offline section, and main got the registry as it was before the line.
C7_Witness ==
    /\ variant = "text"
    /\ pc = "SelectDevice"
    /\ devices = Put(EmptyMap, Bytes("iPhone"), Bytes("F-2"))
    /\ LET lines == ScanLines(deviceOutput.out)
       IN  \E i \in 1..Len(lines) :
             /\ lines[i] = Bytes("iPhone (F-3)")
             /\ Accepts(lines[i], Bytes("F-3"))
             /\ ScanPrefix(lines, i - 1).section = Bytes("== Devices Offline ==")
             /\ ScanPrefix(lines, i - 1).devices = devices

\* C8: detectXcodeProject returns a workspace directory when there is one,
\* else a project directory when there is one, else fails with not-found.
C8_WorkspaceBeforeProject ==
    (JustRan("LocateProject", "ListSchemes") /\ ~files.failed) =>
        LET dirs == { e \in Range(files.entries) : e.isDir }
            ws == { e.name : e \in { d \in dirs : HasSuffix(d.name, Bytes(".xcworkspace")) } }
            pj == { e.name : e \in { d \in dirs : HasSuffix(d.name, Bytes(".xcodeproj")) } }
        IN  IF ws # {} THEN pc = "ListSchemes" /\ projectPath \in ws
            ELSE IF pj # {} THEN pc = "ListSchemes" /\ projectPath \in pj
            ELSE /\ pc = "Failed"
                 /\ report = PrintError("Error:", NotFound)

\* C8 witness: project and workspace directories both exist and the
\* workspace was returned.
C8_Witness ==
    /\ pc = "ListSchemes"
    /\ \E i, j \in 1..Len(files.entries) :
         /\ files.entries[i].name = Bytes("A.xcodeproj")
         /\ files.entries[j].name = Bytes("A.xcworkspace")
    /\ projectPath = Bytes("A.xcworkspace")

\* C9: the lookup of the selected name never fails, and the identifier main
\* holds and passes to the build-settings query, the build and the deploy
\* commands is the one the registry holds for the selected name.
C9_LookupSucceeds ==
    /\ report # PrintFailure("Error: Could not find UDID for selected device.")
    /\ (\E i \in 1..Len(calls) : calls[i].stage = "SelectDevice" /\ calls[i].ok) =>
         /\ selectedDevice \in DOMAIN devices
         /\ deviceUDID = devices[selectedDevice]
         /\ \A i \in 1..Len(calls) :
              calls[i].stage \in { "QueryBuildSettings", "Build", "Deploy" }
                  => calls[i].id = devices[selectedDevice]

\* C9 witness: one of two registered devices was chosen and the run is done.
C9_Witness ==
    /\ pc = "Done"
    /\ Cardinality(DOMAIN devices) = 2
    /\ deviceUDID = devices[selectedDevice]

\* the device name the line carries before its last parenthesis: the text
\* before it without the separating space and without a version annotation
NameBefore(line, lastParen) ==
    LET pre == TrimSuffix(Slice(line, 0, lastParen), Bytes(" "))
        v == LastIndex(pre, Bytes("("))
    IN  IF v # -1 THEN TrimSpace(Slice(pre, 0, v)) ELSE pre

\* C10: no line makes the text parser fault, and a non-empty line scanned
\* under Devices or Simulators is skipped when it has no opening parenthesis
\* and otherwise is skipped or recorded under the name before its last
\* opening parenthesis with the identifier after it.
C10_LineExtraction ==
    (variant = "text" /\ JustRan("ListDevices", "SelectDevice")
       /\ ~deviceOutput.failed) =>
        LET lines == ScanLines(deviceOutput.out)
        IN  /\ pc # "Panicked"
            /\ \A i \in 1..Len(lines) :
                 LET before == ScanPrefix(lines, i - 1)
                     after == ScanPrefix(lines, i)
                     p == LastIndex(lines[i], Bytes("("))
                 IN  ( /\ before.section \in { Bytes("== Devices =="),
                                              Bytes("== Simulators ==") }
                       /\ lines[i] # << >>
                       /\ ~HasPrefix(lines[i], Bytes("== ")) )
                     => /\ ~after.fault
                        /\ IF p = -1 THEN after.devices = before.devices
                           ELSE after.devices \in
                                  { before.devices,
                                    Put(before.devices, NameBefore(lines[i], p),
                                        TrimSuffix(Slice(lines[i], p + 1,
                                                         Len(lines[i])),
                                                   Bytes(")"))) }

============================================================================
